---- MODULE Spec2Model ----
(***************************************************************************)
(* Model of streamlit_app.py: the search-result normalizer                 *)
(* (parse_results), the two st.cache_data caches                           *)
(* (fetch_google_search_results, analyze_row), process_results, the        *)
(* Markdown report (generate_report) and the Streamlit script run (main).  *)
(*                                                                         *)
(* Python values are tagged records (t = "null" | "str" | "num" | "list" | *)
(* "obj"); a Python call that can raise is an operator returning either    *)
(* Ok(value) or Raise(exception name).                                     *)
(***************************************************************************)
EXTENDS Integers, Sequences, FiniteSets, TLC

VARIABLES
    inp,            \* arguments of the pending pure-function call (parse_results, generate_report)
    out,            \* what that call returned or raised
    conf,           \* st.secrets: the SerpAPI key and the OpenRouter key
    fetch_cache,    \* st.cache_data store of fetch_google_search_results
    analyze_cache,  \* st.cache_data store of analyze_row
    session,        \* st.session_state
    elapsed,        \* seconds since the last operation
    hist            \* the operations performed, newest last (observation only)

vars == <<inp, out, conf, fetch_cache, analyze_cache, session, elapsed, hist>>

(***************************************************************************)
(* Bounds of the model.                                                    *)
(***************************************************************************)
MaxItems == 3       \* longest category list of a raw response
MaxLimit == 2       \* largest num_results tried on parse_results
MaxCalls == 2       \* calls of analyze_row / process_results in one behaviour of SpecAnalyze
MaxFetches == 3     \* calls of fetch_google_search_results in one behaviour of SpecFetch

(***************************************************************************)
(* Python / JSON values.                                                   *)
(***************************************************************************)
Null == [t |-> "null"]
Str(s) == [t |-> "str", v |-> s]
Num(n) == [t |-> "num", v |-> n]
Lst(q) == [t |-> "list", v |-> q]
Obj(f) == [t |-> "obj", v |-> f]
EmptyObj == Obj([k \in {} |-> Null])
\* the value of an expression, bound once: Only({F(x) : x \in {e}}) is F(e)
Only(S) == CHOOSE x \in S : TRUE
Absent == [t |-> "absent"]

Pending == [t |-> "pending"]

Ok(v) == [ok |-> TRUE, val |-> v]
Raise(e) == [ok |-> FALSE, exc |-> e]

\* dict.get(key, default)
Get(d, k, default) == IF k \in DOMAIN d.v THEN d.v[k] ELSE default

\* obj.get(key, default) on any value: only a dict has .get
GetAttr(x, k, default) ==
    IF x.t = "obj" THEN Ok(Get(x, k, default)) ELSE Raise("AttributeError")

\* str(x) for the values a position can take
Digits == <<"1", "2", "3", "4", "5", "6", "7", "8", "9">>
PyStr(x) ==
    CASE x.t = "null" -> "None"
      [] x.t = "str" -> x.v
      [] x.t = "num" -> IF x.v = 0 THEN "0" ELSE Digits[x.v]
      [] OTHER -> "<object>"

\* the elements a for-loop over x visits: a list's items, a dict's keys, a
\* string's characters (each a str; only the type of a character matters here)
SetToSeq(S) ==
    CHOOSE q \in [1..Cardinality(S) -> S] : \A i, j \in 1..Cardinality(S) : i # j => q[i] # q[j]
Iter(x) ==
    CASE x.t = "list" -> Ok(x.v)
      [] x.t = "obj" -> Ok([i \in 1..Cardinality(DOMAIN x.v) |-> Str(SetToSeq(DOMAIN x.v)[i])])
      [] x.t = "str" -> Ok(IF x.v = "" THEN <<>> ELSE <<Str(x.v)>>)
      [] OTHER -> Raise("TypeError")

\* x[:n] with n >= 1
Slice(x, n) ==
    CASE x.t = "list" -> Ok(Lst(SubSeq(x.v, 1, IF Len(x.v) < n THEN Len(x.v) ELSE n)))
      [] x.t = "str" -> Ok(x)
      [] OTHER -> Raise("TypeError")

\* ", ".join(parts): every part must be a str
RECURSIVE JoinStr(_)
JoinStr(parts) ==
    IF parts = <<>> THEN ""
    ELSE IF Len(parts) = 1 THEN parts[1].v
    ELSE parts[1].v \o ", " \o JoinStr(Tail(parts))
Join(parts) ==
    IF \A i \in 1..Len(parts) : parts[i].t = "str"
    THEN Ok(Str(JoinStr(parts))) ELSE Raise("TypeError")

(***************************************************************************)
(* parse_results                                                           *)
(***************************************************************************)
\* [sitelink.get("title", "") for sitelink in links], then ", ".join
RECURSIVE SitelinkTitles(_)
SitelinkTitles(links) ==
    IF links = <<>> THEN Ok(<<>>)
    ELSE LET t == GetAttr(links[1], "title", Str(""))
             rest == SitelinkTitles(Tail(links))
         IN  IF ~t.ok THEN t
             ELSE IF ~rest.ok THEN rest
             ELSE Ok(<<t.val>> \o rest.val)
JoinSitelinks(container) ==
    LET it == Iter(container)
    IN  IF ~it.ok THEN it
        ELSE LET ts == SitelinkTitles(it.val)
             IN  IF ~ts.ok THEN ts ELSE Join(ts.val)

\* item.get("sitelinks", [])
AdSitelinks(item) == JoinSitelinks(Get(item, "sitelinks", Lst(<<>>)))

\* result.get("sitelinks", {}).get("inline", [])
OrganicSitelinks(item) ==
    LET inl == GetAttr(Get(item, "sitelinks", EmptyObj), "inline", Lst(<<>>))
    IN  IF ~inl.ok THEN inl ELSE JoinSitelinks(inl.val)

AdData(item) ==
    IF item.t # "obj" THEN Raise("AttributeError")
    ELSE LET sl == AdSitelinks(item)
         IN  IF ~sl.ok THEN sl
             ELSE Ok(Obj(("Type" :> Str("Ad")) @@
                         ("Position" :> Get(item, "position", Null)) @@
                         ("Title" :> Get(item, "title", Null)) @@
                         ("Link" :> Get(item, "link", Null)) @@
                         ("Displayed Link" :> Get(item, "displayed_link", Null)) @@
                         ("Description" :> Get(item, "description", Null)) @@
                         ("Sitelinks" :> sl.val) @@
                         ("Source" :> Get(item, "source", Null))))

OrganicData(item) ==
    IF item.t # "obj" THEN Raise("AttributeError")
    ELSE LET sl == OrganicSitelinks(item)
         IN  IF ~sl.ok THEN sl
             ELSE Ok(Obj(("Type" :> Str("Organic")) @@
                         ("Position" :> Get(item, "position", Null)) @@
                         ("Title" :> Get(item, "title", Null)) @@
                         ("Link" :> Get(item, "link", Null)) @@
                         ("Displayed Link" :> Get(item, "displayed_link", Null)) @@
                         ("Snippet" :> Get(item, "snippet", Null)) @@
                         ("Sitelinks" :> sl.val) @@
                         ("Source" :> Get(item, "source", Null))))

ShoppingData(item) ==
    IF item.t # "obj" THEN Raise("AttributeError")
    ELSE Ok(Obj(("Type" :> Str("Shopping")) @@
                ("Position" :> Get(item, "position", Null)) @@
                ("Title" :> Get(item, "title", Null)) @@
                ("Link" :> Get(item, "link", Null)) @@
                ("Price" :> Get(item, "price", Null)) @@
                ("Source" :> Get(item, "source", Null)) @@
                ("Rating" :> Get(item, "rating", Null)) @@
                ("Reviews" :> Get(item, "reviews", Null))))

ImmersiveData(item) ==
    IF item.t # "obj" THEN Raise("AttributeError")
    ELSE Ok(Obj(("Type" :> Str("Immersive Product")) @@
                ("Title" :> Get(item, "title", Null)) @@
                ("Link" :> Get(item, "link", Null)) @@
                ("Price" :> Get(item, "price", Null)) @@
                ("Source" :> Get(item, "source", Null))))

\* the categories of parsed_data in insertion order, and the raw key of each
Categories == <<"ads", "organic", "shopping_results", "immersive_products">>
RawKey(cat) == IF cat = "organic" THEN "organic_results" ELSE cat

Extract(cat, item) ==
    CASE cat = "ads" -> AdData(item)
      [] cat = "organic" -> OrganicData(item)
      [] cat = "shopping_results" -> ShoppingData(item)
      [] OTHER -> ImmersiveData(item)

\* the for-loop of one category: stops at the first item that raises
RECURSIVE ExtractAll(_, _)
ExtractAll(cat, items) ==
    IF items = <<>> THEN Ok(<<>>)
    ELSE LET r == Extract(cat, items[1])
         IN  IF ~r.ok THEN r
             ELSE LET rest == ExtractAll(cat, Tail(items))
                  IN  IF ~rest.ok THEN rest ELSE Ok(<<r.val>> \o rest.val)

\* one "if key in results: for item in results[key][:num_results]: ..." block
ParseCategory(results, cat, num_results) ==
    IF RawKey(cat) \notin DOMAIN results.v THEN Ok(<<>>)
    ELSE LET sl == Slice(results.v[RawKey(cat)], num_results)
         IN  IF ~sl.ok THEN sl
             ELSE LET it == Iter(sl.val)
                  IN  IF ~it.ok THEN it ELSE ExtractAll(cat, it.val)

\* the four blocks in order; the first exception leaves the function
RECURSIVE ParseFrom(_, _, _, _)
ParseFrom(results, num_results, i, acc) ==
    IF i > Len(Categories) THEN Ok(acc)
    ELSE LET r == ParseCategory(results, Categories[i], num_results)
         IN  IF ~r.ok THEN r
             ELSE ParseFrom(results, num_results, i + 1, acc @@ (Categories[i] :> r.val))

parse_results(results, num_results) ==
    ParseFrom(results, num_results, 1, [c \in {} |-> <<>>])

(***************************************************************************)
(* Raw responses tried on parse_results: one category holds any list of up *)
(* to MaxItems items (or a value that is no list), the other categories    *)
(* are absent, empty or hold one plain item.                               *)
(***************************************************************************)
Item(p, title) == Obj([position |-> Num(p), title |-> Str(title), link |-> Str("http://" \o title)])
ItemA == Item(1, "A")
ItemB == Item(2, "B")
ItemNoPos == Obj([title |-> Str("C"), link |-> Str("http://C")])
WithSitelinks(item, sl) == Obj(item.v @@ ("sitelinks" :> sl))
TitleList == Lst(<<Obj([title |-> Str("s1")]), Obj([title |-> Str("s2")])>>)

PlainItems == {ItemA, ItemB, ItemNoPos}
NotADict == Str("x")
CatItems(cat) ==
    CASE cat = "ads" ->
            PlainItems \cup {WithSitelinks(ItemA, TitleList), WithSitelinks(ItemA, Null),
                             WithSitelinks(ItemA, Obj([inline |-> TitleList])),
                             WithSitelinks(ItemA, Lst(<<NotADict>>)), NotADict}
      [] cat = "organic" ->
            PlainItems \cup {WithSitelinks(ItemA, Obj([inline |-> TitleList])),
                             WithSitelinks(ItemA, TitleList), WithSitelinks(ItemA, Null),
                             WithSitelinks(ItemA, Obj([expanded |-> TitleList])), NotADict}
      [] OTHER -> PlainItems \cup {NotADict}

SeqsUpTo(S, n) == UNION {[1..k -> S] : k \in 0..n}
NotAList == {Null, Str("x"), Obj([error |-> Str("x")])}
CatValues(cat) == {Lst(q) : q \in SeqsUpTo(CatItems(cat), MaxItems)} \cup NotAList

RawKeys == {RawKey(Categories[i]) : i \in 1..Len(Categories)}
Backgrounds ==
    {[k \in {} |-> Null], [k \in RawKeys |-> Lst(<<>>)], [k \in RawKeys |-> Lst(<<ItemB>>)],
     [search_information |-> Obj([total_results |-> Num(1)])]}
ParseRaws ==
    Backgrounds \cup
    UNION {{(RawKey(Categories[i]) :> v) @@ bg : v \in CatValues(Categories[i]), bg \in Backgrounds} :
              i \in 1..Len(Categories)}
ParseInputs ==
    {[fn |-> "parse_results", results |-> Obj(r), num_results |-> n] :
        r \in ParseRaws, n \in 1..MaxLimit}

\* the state of everything a pure-function check leaves alone
NoConf == [serpapi_key |-> "", openrouter_key |-> ""]
EmptyCache == [k \in {} |-> Null]
NoSession == [logged_in |-> FALSE, parsed_data |-> Absent, raw_results |-> Absent,
              analyzed_results |-> Absent]
InitRest ==
    /\ conf = NoConf
    /\ fetch_cache = EmptyCache
    /\ analyze_cache = EmptyCache
    /\ session = NoSession
    /\ elapsed = 0
    /\ hist = <<>>
RestUnchanged == UNCHANGED <<conf, fetch_cache, analyze_cache, session, elapsed, hist>>

InitParse == inp \in ParseInputs /\ out = Pending /\ InitRest

DoParse ==
    /\ inp.fn = "parse_results"
    /\ out = Pending
    /\ out' = parse_results(inp.results, inp.num_results)
    /\ UNCHANGED inp
    /\ RestUnchanged

NextParse == DoParse
SpecParse == InitParse /\ [][NextParse]_vars

(***************************************************************************)
(* Claims about parse_results                                              *)
(***************************************************************************)
Min(a, b) == IF a < b THEN a ELSE b

\* a raw response whose recognized categories all hold lists of items of the
\* documented shape (ad sitelinks a list of titled links, organic sitelinks
\* an object with an optional inline list)
WellFormedItem(cat, item) ==
    /\ item.t = "obj"
    /\ "sitelinks" \in DOMAIN item.v =>
          \/ cat = "ads" /\ item.v["sitelinks"] = TitleList
          \/ cat = "organic" /\ item.v["sitelinks"] \in {Obj([inline |-> TitleList]), Obj([expanded |-> TitleList])}
WellFormed(results) ==
    \A i \in 1..Len(Categories) :
        RawKey(Categories[i]) \in DOMAIN results.v =>
            LET x == results.v[RawKey(Categories[i])]
            IN  x.t = "list" /\ \A j \in 1..Len(x.v) : WellFormedItem(Categories[i], x.v[j])

SourceItems(results, cat) ==
    IF RawKey(cat) \in DOMAIN results.v THEN results.v[RawKey(cat)].v ELSE <<>>

\* C8: a well-formed raw response with N items in a category yields
\* min(N, limit) records for it, the i-th taken from the i-th source item,
\* carrying the item's position under 'Position' when the item has one, and
\* all records of a category have the same fields.
C8_TruncateKeepsOrderAndPosition ==
    (inp.fn = "parse_results" /\ out # Pending /\ WellFormed(inp.results)) =>
        /\ out.ok
        /\ \A c \in 1..Len(Categories) :
              LET cat == Categories[c]
                  src == SourceItems(inp.results, cat)
                  recs == out.val[cat]
              IN  /\ Len(recs) = Min(Len(src), inp.num_results)
                  /\ \A i \in 1..Len(recs) :
                        /\ recs[i].v["Title"] = Get(src[i], "title", Null)
                        /\ recs[i].v["Link"] = Get(src[i], "link", Null)
                        /\ "position" \in DOMAIN src[i].v =>
                              /\ "Position" \in DOMAIN recs[i].v
                              /\ recs[i].v["Position"] = src[i].v["position"]
                  /\ \A i, j \in 1..Len(recs) : DOMAIN recs[i].v = DOMAIN recs[j].v

\* C9: parse_results returns, whatever the raw response holds, a mapping with
\* one list per category.
C9_ParseNeverRaises ==
    (inp.fn = "parse_results" /\ out # Pending) =>
        /\ out.ok
        /\ DOMAIN out.val = {Categories[i] : i \in 1..Len(Categories)}

(***************************************************************************)
(* analyze_row: the function body                                          *)
(***************************************************************************)
\* a str holding the JSON encoding of x: what json.dumps(x) returns and what
\* json.loads accepts; any other str is text that is no JSON
JsonText(x) == [t |-> "json", v |-> x]
json_dumps(x) == JsonText(x)
json_loads(x) ==
    CASE x.t = "json" -> Ok(x.v)
      [] x.t = "str" -> Raise("JSONDecodeError")
      [] OTHER -> Raise("TypeError")

\* x[key] for a str key
Index(x, k) ==
    CASE x.t = "obj" -> IF k \in DOMAIN x.v THEN Ok(x.v[k]) ELSE Raise("KeyError")
      [] OTHER -> Raise("TypeError")
\* x[0]
Index0(x) ==
    CASE x.t = "list" -> IF x.v = <<>> THEN Raise("IndexError") ELSE Ok(x.v[1])
      [] x.t = "obj" -> Raise("KeyError")
      [] x.t = "str" -> IF x.v = "" THEN Raise("IndexError") ELSE Ok(x)
      [] OTHER -> Raise("TypeError")

\* f"{_row['Type'].lower()}s"
TypeKey(row) ==
    CASE row.v["Type"] = Str("Ad") -> "ads"
      [] row.v["Type"] = Str("Organic") -> "organics"
      [] row.v["Type"] = Str("Shopping") -> "shoppings"
      [] OTHER -> "immersive products"

\* next((item for item in items if str(item.get("position")) == target), {})
RECURSIVE FirstMatch(_, _)
FirstMatch(items, target) ==
    IF items = <<>> THEN Ok(EmptyObj)
    ELSE LET p == GetAttr(items[1], "position", Null)
         IN  IF ~p.ok THEN p
             ELSE IF PyStr(p.val) = target THEN Ok(items[1])
             ELSE FirstMatch(Tail(items), target)

OriginalData(row, original_json) ==
    LET it == Iter(Get(original_json, TypeKey(row), Lst(<<>>)))
    IN  IF ~it.ok THEN it ELSE FirstMatch(it.val, PyStr(Get(row, "Position", Null)))

\* the prompt f-string subscripts _row['Type'], ['Title'], ['Link'], ['Position']
Prompt(row, original_data) ==
    IF {"Type", "Title", "Link", "Position"} \subseteq DOMAIN row.v
    THEN Ok([type |-> row.v["Type"], title |-> row.v["Title"], link |-> row.v["Link"],
             position |-> row.v["Position"], full_data |-> json_dumps(row),
             original_data |-> json_dumps(original_data)])
    ELSE Raise("KeyError")

\* What the completion service does with one request:
\*   [kind |-> "timeout"], [kind |-> "status", code |-> c] or
\*   [kind |-> "body", code |-> 200, text |-> the response text]
\* requests.post / raise_for_status / response.json()
HttpJson(outcome) ==
    CASE outcome.kind = "timeout" -> Raise("RequestException")
      [] outcome.kind = "status" -> Raise("RequestException")
      [] OTHER -> IF outcome.text.t = "json" THEN Ok(outcome.text.v) ELSE Raise("RequestException")

\* response.json()["choices"][0]["message"]["content"], then json.loads
Content(body) ==
    LET a == Index(body, "choices")
    IN  IF ~a.ok THEN a
        ELSE LET b == Index0(a.val)
             IN  IF ~b.ok THEN b
                 ELSE LET c == Index(b.val, "message")
                      IN  IF ~c.ok THEN c ELSE Index(c.val, "content")

TryBlock(outcome) ==
    LET body == HttpJson(outcome)
    IN  IF ~body.ok THEN body
        ELSE LET content == Content(body.val)
             IN  IF ~content.ok THEN content ELSE json_loads(content.val)

ErrorResult(msg) == Obj([error |-> Str(msg)])

\* the two except clauses; any other exception leaves analyze_row
Handle(r) ==
    IF r.ok THEN r
    ELSE IF r.exc = "RequestException" THEN Ok(ErrorResult("Failed to analyze row"))
    ELSE IF r.exc \in {"KeyError", "IndexError", "ValueError", "JSONDecodeError"}
         THEN Ok(ErrorResult("Error processing the analysis"))
    ELSE r

\* [res |-> what the body returns or raises, issued |-> completion requests sent]
analyze_row_body(row, api_key, original_json, outcome) ==
    LET od == OriginalData(row, original_json)
    IN  IF ~od.ok THEN [res |-> od, issued |-> 0]
        ELSE LET pr == Prompt(row, od.val)
             IN  IF ~pr.ok THEN [res |-> pr, issued |-> 0]
                 ELSE [res |-> Handle(TryBlock(outcome)), issued |-> 1]

(***************************************************************************)
(* st.cache_data: a store from the hash key of the call's arguments to the *)
(* value returned and its age; an entry is served while its age is below   *)
(* the ttl, a call that raises stores nothing.                             *)
(***************************************************************************)
FETCH_TTL == 300
ANALYZE_TTL == 3600

Live(cache, key, ttl) == key \in DOMAIN cache /\ cache[key].age < ttl
Store(cache, key, val) == [k \in DOMAIN cache \cup {key} |-> IF k = key THEN [val |-> val, age |-> 0] ELSE cache[k]]

\* a parameter whose name starts with an underscore (_row) is left out of the key
AnalyzeKey(row, api_key, original_json) == <<api_key, original_json>>

\* analyze_row with a cache that keeps parsed payloads only
analyze_row_payloads_only(cache, row, api_key, original_json, outcome) ==
    LET key == AnalyzeKey(row, api_key, original_json)
    IN  IF Live(cache, key, ANALYZE_TTL)
        THEN [res |-> Ok(cache[key].val), issued |-> 0, cache |-> cache]
        ELSE LET b == analyze_row_body(row, api_key, original_json, outcome)
             IN  [res |-> b.res, issued |-> b.issued,
                  cache |-> IF b.res.ok /\ b.res.val \notin {ErrorResult("Failed to analyze row"),
                                                             ErrorResult("Error processing the analysis")}
                            THEN Store(cache, key, b.res.val) ELSE cache]

\* analyze_row with a cache that is written and never read
analyze_row_never_served(cache, row, api_key, original_json, outcome) ==
    LET key == AnalyzeKey(row, api_key, original_json)
        b == analyze_row_body(row, api_key, original_json, outcome)
    IN  [res |-> b.res, issued |-> b.issued,
         cache |-> IF b.res.ok THEN Store(cache, key, b.res.val) ELSE cache]

\* [res, issued, cache]: the decorated analyze_row
analyze_row(cache, row, api_key, original_json, outcome) ==
    LET key == AnalyzeKey(row, api_key, original_json)
    IN  IF Live(cache, key, ANALYZE_TTL)
        THEN [res |-> Ok(cache[key].val), issued |-> 0, cache |-> cache]
        ELSE LET b == analyze_row_body(row, api_key, original_json, outcome)
             IN  [res |-> b.res, issued |-> b.issued,
                  cache |-> IF b.res.ok THEN Store(cache, key, b.res.val) ELSE cache]

(***************************************************************************)
(* process_results                                                         *)
(***************************************************************************)
\* load_api_key: the key, or None when secrets.toml has none
load_api_key(c) == c.openrouter_key

\* the (result_type, row) pairs in the order of the two nested loops
RECURSIVE RowsFrom(_, _)
RowsFrom(parsed_data, i) ==
    IF i > Len(Categories) THEN <<>>
    ELSE [j \in 1..Len(parsed_data[Categories[i]]) |->
            [result_type |-> Categories[i], row |-> parsed_data[Categories[i]][j]]]
         \o RowsFrom(parsed_data, i + 1)
AllRows(parsed_data) == RowsFrom(parsed_data, 1)

ResultEntry(result_type, row, analysis) ==
    Obj(("Type" :> Str(result_type)) @@
        ("Position" :> Get(row, "Position", Null)) @@
        ("Title" :> Get(row, "Title", Null)) @@
        ("Link" :> Get(row, "Link", Null)) @@
        ("Original Data" :> json_dumps(row)) @@
        ("Analysis" :> json_dumps(analysis)))

\* the loop from row i on; outcomes[i] is what the completion service does
\* with the request for row i, if one is sent
RECURSIVE AnalyzeRows(_, _, _, _, _, _, _, _)
AnalyzeRows(cache, rows, i, api_key, original_json, outcomes, all_results, issued) ==
    IF i > Len(rows) THEN [res |-> Ok(Lst(all_results)), issued |-> issued, cache |-> cache]
    ELSE Only({IF ~a.res.ok THEN [res |-> a.res, issued |-> issued + a.issued, cache |-> a.cache]
               ELSE AnalyzeRows(a.cache, rows, i + 1, api_key, original_json, outcomes,
                                Append(all_results, ResultEntry(rows[i].result_type, rows[i].row, a.res.val)),
                                issued + a.issued)
               : a \in {analyze_row(cache, rows[i].row, api_key, original_json, outcomes[i])}})

\* [res, issued, cache]: res is Ok(Absent) when the function returns early
\* without touching st.session_state.analyzed_results, Ok(the list) when it
\* stores the list, Raise(..) when analyze_row raised
process_results(cache, c, parsed_data, original_json, outcomes) ==
    IF load_api_key(c) = "" THEN [res |-> Ok(Absent), issued |-> 0, cache |-> cache]
    ELSE AnalyzeRows(cache, AllRows(parsed_data), 1, load_api_key(c), original_json, outcomes, <<>>, 0)

(***************************************************************************)
(* generate_report                                                         *)
(***************************************************************************)
PlainFields == <<"seo_analysis", "content_strategy", "competitive_positioning", "improvements",
                 "usp", "cta_effectiveness", "target_audience", "recommendations">>
ReportFields == {PlainFields[i] : i \in 1..Len(PlainFields)} \cup {"keywords"}

\* ', '.join(analysis.get('keywords', ['N/A']))
Keywords(analysis) ==
    LET it == Iter(Get(analysis, "keywords", Lst(<<Str("N/A")>>)))
    IN  IF ~it.ok THEN it ELSE Join(it.val)

\* one "## ... ---" section, or the exception that ends the report
Section(result) ==
    LET loaded == json_loads(result.v["Analysis"])
    IN  IF ~loaded.ok THEN loaded
        ELSE IF loaded.val.t # "obj" THEN Raise("AttributeError")
        ELSE LET kw == Keywords(loaded.val)
             IN  IF ~kw.ok THEN kw
                 ELSE Ok([type |-> PyStr(result.v["Type"]),
                          position |-> PyStr(result.v["Position"]),
                          title |-> PyStr(result.v["Title"]),
                          link |-> PyStr(result.v["Link"]),
                          fields |-> [f \in ReportFields |->
                                        IF f = "keywords" THEN kw.val.v
                                        ELSE PyStr(Get(loaded.val, f, Str("N/A")))]])

RECURSIVE Sections(_)
Sections(results) ==
    IF results = <<>> THEN Ok(<<>>)
    ELSE LET s == Section(results[1])
         IN  IF ~s.ok THEN s
             ELSE LET rest == Sections(Tail(results))
                  IN  IF ~rest.ok THEN rest ELSE Ok(<<s.val>> \o rest.val)

generate_report(query, analyzed_results) ==
    LET ss == Sections(analyzed_results.v)
    IN  IF ~ss.ok THEN ss ELSE Ok([query |-> query, sections |-> ss.val])

(***************************************************************************)
(* What the two services can answer.                                       *)
(***************************************************************************)
RawAds == Obj([ads |-> Lst(<<ItemA, ItemB>>), immersive_products |-> Lst(<<ItemNoPos>>)])
RawOrganic == Obj([organic_results |-> Lst(<<ItemB, ItemA>>)])
RawImmersive == Obj([immersive_products |-> Lst(<<ItemA>>)])
SearchResponses == {RawAds, RawOrganic, RawImmersive}

FullAnalysis ==
    Obj([f \in ReportFields |-> IF f = "keywords" THEN Lst(<<Str("k1"), Str("k2")>>) ELSE Str("text")])
AnalysisPayloads ==
    {FullAnalysis, Obj([seo_analysis |-> Str("text")]), EmptyObj,
     Obj([keywords |-> Str("k")]), Obj([keywords |-> Num(3)]), Obj([keywords |-> Null]),
     Obj([keywords |-> Lst(<<Num(1)>>)]),
     Lst(<<Str("text")>>), Str("text"), Num(3), Null}

Answer(content) == Obj([choices |-> Lst(<<Obj([message |-> Obj([content |-> content])])>>)])
Body(x) == [kind |-> "body", code |-> 200, text |-> JsonText(x)]
FailureOutcomes ==
    {[kind |-> "timeout", code |-> 0, text |-> Null],
     [kind |-> "status", code |-> 500, text |-> Null],
     [kind |-> "body", code |-> 200, text |-> Str("<html>")],
     Body(Obj([error |-> Str("rate limited")])),
     Body(Obj([choices |-> Lst(<<>>)])),
     Body(Obj([choices |-> Null])),
     Body(Answer(Null)),
     Body(Answer(Str("Sure, here is the analysis")))}
Outcomes == FailureOutcomes \cup {Body(Answer(JsonText(x))) : x \in AnalysisPayloads}

\* the answers tried on the cache: a failed request, an answer that makes
\* analyze_row raise, a full payload
CacheOutcomes ==
    {[kind |-> "timeout", code |-> 0, text |-> Null], Body(Answer(Null)),
     Body(Answer(JsonText(FullAnalysis)))}
CacheResponses == {RawAds, RawOrganic}

(***************************************************************************)
(* generate_report on the lists process_results stores: every list it      *)
(* builds from a parsed search response, starting from an empty cache,     *)
(* whatever the completion service answers.                                *)
(***************************************************************************)
Queries == {"elisa kits", "pcr kits"}
HasKey == [serpapi_key |-> "serp-1", openrouter_key |-> "sk-1"]
StoredLists ==
    UNION {UNION {{process_results(EmptyCache, HasKey, parse_results(r, n).val, r, os).res :
                      os \in [1..Len(AllRows(parse_results(r, n).val)) -> Outcomes]} :
                  n \in 1..MaxLimit} : r \in SearchResponses}
ReportInputs ==
    {[fn |-> "generate_report", query |-> q, analyzed_results |-> l.val] :
        q \in Queries, l \in {x \in StoredLists : x.ok /\ x.val.t = "list" /\ x.val.v # <<>>}}

InitReport == inp \in ReportInputs /\ out = Pending /\ InitRest

DoReport ==
    /\ inp.fn = "generate_report"
    /\ out = Pending
    /\ out' = generate_report(inp.query, inp.analyzed_results)
    /\ UNCHANGED inp
    /\ RestUnchanged

NextReport == DoReport
SpecReport == InitReport /\ [][NextReport]_vars

\* C7: generate_report returns for every stored list, with one section per
\* record and 'N/A' for every insight field the record's analysis lacks.
C7_ReportAlwaysRenders ==
    (inp.fn = "generate_report" /\ out # Pending) =>
        /\ out.ok
        /\ Len(out.val.sections) = Len(inp.analyzed_results.v)
        /\ \A i \in 1..Len(out.val.sections) :
              LET analysis == inp.analyzed_results.v[i].v["Analysis"].v
              IN  \A f \in ReportFields :
                    (analysis.t # "obj" \/ f \notin DOMAIN analysis.v) =>
                        out.val.sections[i].fields[f] = "N/A"

(***************************************************************************)
(* Time: a tick ages every cache entry (an age stops growing at the ttl,   *)
(* where the entry is dead) and the time since the last operation.         *)
(***************************************************************************)
Aged(cache, dt, ttl) == [k \in DOMAIN cache |-> [cache[k] EXCEPT !.age = Min(@ + dt, ttl)]]

AgeCaches(dt) ==
    /\ fetch_cache' = Aged(fetch_cache, dt, FETCH_TTL)
    /\ analyze_cache' = Aged(analyze_cache, dt, ANALYZE_TTL)

Tick(dt) ==
    /\ AgeCaches(dt)
    /\ elapsed' = Min(elapsed + dt, ANALYZE_TTL)
    /\ UNCHANGED <<inp, out, conf, session, hist>>

\* seconds between operation i and the later operation j of hist
RECURSIVE Between(_, _)
Between(i, j) == IF j <= i THEN 0 ELSE Min(hist[j].gap + Between(i, j - 1), ANALYZE_TTL)

(***************************************************************************)
(* SpecAnalyze: up to MaxCalls calls of analyze_row and process_results on *)
(* the records of the sample responses, with time passing in between.      *)
(***************************************************************************)
ApiKeys == {"sk-1", "sk-2"}
Idle == [fn |-> "none"]
Confs == {[serpapi_key |-> s, openrouter_key |-> o] : s \in {"", "serp-1"}, o \in {"", "sk-1"}}

InitAnalyze ==
    /\ inp = Idle
    /\ out = Pending
    /\ conf \in {c \in Confs : c.serpapi_key # ""}
    /\ fetch_cache = EmptyCache
    /\ analyze_cache = EmptyCache
    /\ session = NoSession
    /\ elapsed = 0
    /\ hist = <<>>

RowsOf(raw) ==
    LET rows == AllRows(parse_results(raw, MaxLimit).val)
    IN  {rows[i].row : i \in 1..Len(rows)}

CallAnalyzeRow ==
    /\ Len(hist) < MaxCalls
    /\ \E raw \in CacheResponses, api_key \in ApiKeys, o \in CacheOutcomes :
         \E row \in RowsOf(raw) :
            LET a == analyze_row(analyze_cache, row, api_key, raw, o)
            IN  /\ analyze_cache' = a.cache
                /\ hist' = Append(hist, [op |-> "analyze_row", row |-> row, api_key |-> api_key,
                                         raw |-> raw, parsed |-> Null, outcome |-> o,
                                         res |-> a.res, issued |-> a.issued, gap |-> elapsed,
                                         empty_before |-> (analyze_cache = EmptyCache)])
    /\ elapsed' = 0
    /\ UNCHANGED <<inp, out, conf, fetch_cache, session>>

\* every request of one process_results run is answered the same way
CallProcessResults ==
    /\ Len(hist) < MaxCalls
    /\ \E raw \in CacheResponses, o \in CacheOutcomes :
         LET pd == parse_results(raw, MaxLimit).val
             p == process_results(analyze_cache, conf, pd, raw, [i \in 1..Len(AllRows(pd)) |-> o])
         IN  /\ analyze_cache' = p.cache
             /\ hist' = Append(hist, [op |-> "process_results", row |-> Null,
                                      api_key |-> conf.openrouter_key, raw |-> raw,
                                      parsed |-> pd, outcome |-> o,
                                      res |-> p.res, issued |-> p.issued, gap |-> elapsed,
                                      empty_before |-> (analyze_cache = EmptyCache)])
    /\ elapsed' = 0
    /\ UNCHANGED <<inp, out, conf, fetch_cache, session>>

TickAnalyze ==
    /\ hist # <<>>
    /\ Len(hist) < MaxCalls
    /\ elapsed = 0
    /\ \E dt \in {ANALYZE_TTL - 1, ANALYZE_TTL} : Tick(dt)

NextAnalyze == CallAnalyzeRow \/ CallProcessResults \/ TickAnalyze
SpecAnalyze == InitAnalyze /\ [][NextAnalyze]_vars

(***************************************************************************)
(* Claims about analyze_row and its cache                                  *)
(***************************************************************************)
\* the identity of a record: (category, position, title)
ItemKey(row) == <<row.v["Type"], Get(row, "Position", Null), row.v["Title"]>>

IsCall(i) == hist[i].op = "analyze_row"
SameArgs(i, j) ==
    /\ IsCall(i) /\ IsCall(j)
    /\ hist[i].row = hist[j].row
    /\ hist[i].api_key = hist[j].api_key
    /\ hist[i].raw = hist[j].raw

\* C1: an analyze_row call for an item key (here of a record that has a
\* position, so that the prompt can be built) that comes after analyze_row
\* calls for other item keys only sends a completion request; and
\* process_results on an empty cache sends one request per record when the
\* records' item keys are pairwise distinct.
C1_CacheKeyedByItem ==
    /\ \A j \in 1..Len(hist) :
          (/\ IsCall(j)
           /\ "Position" \in DOMAIN hist[j].row.v
           /\ \A i \in 1..(j - 1) : IsCall(i) /\ ItemKey(hist[i].row) # ItemKey(hist[j].row))
          => hist[j].issued = 1
    /\ \A j \in 1..Len(hist) :
          LET rows == AllRows(hist[j].parsed)
          IN  (/\ hist[j].op = "process_results"
               /\ hist[j].empty_before
               /\ hist[j].api_key # ""
               /\ hist[j].res.ok
               /\ \A a, b \in 1..Len(rows) : a # b => ItemKey(rows[a].row) # ItemKey(rows[b].row))
              => hist[j].issued = Len(rows)

SearchOutcomes ==
    {[kind |-> "ok", raw |-> r] : r \in SearchResponses} \cup {[kind |-> "error", raw |-> Null]}
FetchOutcomes == {o \in SearchOutcomes : o.raw # RawImmersive}

\* [res |-> the dict returned, issued |-> search-API calls made]
fetch_body(c, query, num_results, outcome) ==
    IF c.serpapi_key = "" THEN [res |-> EmptyObj, issued |-> 0]
    ELSE IF outcome.kind = "ok" THEN [res |-> outcome.raw, issued |-> 1]
    ELSE [res |-> EmptyObj, issued |-> 1]

\* fetch_google_search_results with a cache keyed by the query alone
fetch_keyed_by_query(cache, c, query, num_results, outcome) ==
    LET key == <<query>>
    IN  IF Live(cache, key, FETCH_TTL)
        THEN [res |-> cache[key].val, issued |-> 0, hit |-> TRUE, cache |-> cache]
        ELSE LET b == fetch_body(c, query, num_results, outcome)
             IN  [res |-> b.res, issued |-> b.issued, hit |-> FALSE,
                  cache |-> Store(cache, key, b.res)]

\* [res, issued, hit, cache]: the decorated function; the body always
\* returns, so every call that runs it stores what it returned
fetch_google_search_results(cache, c, query, num_results, outcome) ==
    LET key == <<query, num_results>>
    IN  IF Live(cache, key, FETCH_TTL)
        THEN [res |-> cache[key].val, issued |-> 0, hit |-> TRUE, cache |-> cache]
        ELSE LET b == fetch_body(c, query, num_results, outcome)
             IN  [res |-> b.res, issued |-> b.issued, hit |-> FALSE,
                  cache |-> Store(cache, key, b.res)]

(***************************************************************************)
(* SpecFetch: up to MaxFetches calls of fetch_google_search_results, with  *)
(* time passing in between; the SerpAPI key is configured or empty.        *)
(***************************************************************************)
InitFetch ==
    /\ inp = Idle
    /\ out = Pending
    /\ conf \in {c \in Confs : c.openrouter_key # ""}
    /\ fetch_cache = EmptyCache
    /\ analyze_cache = EmptyCache
    /\ session = NoSession
    /\ elapsed = 0
    /\ hist = <<>>

CallFetch ==
    /\ Len(hist) < MaxFetches
    /\ \E q \in Queries, n \in {1, MaxLimit}, o \in FetchOutcomes :
         LET f == fetch_google_search_results(fetch_cache, conf, q, n, o)
         IN  /\ fetch_cache' = f.cache
             /\ hist' = Append(hist, [op |-> "fetch", query |-> q, num_results |-> n,
                                      outcome |-> o, res |-> f.res, issued |-> f.issued,
                                      hit |-> f.hit, gap |-> elapsed])
    /\ elapsed' = 0
    /\ UNCHANGED <<inp, out, conf, analyze_cache, session>>

TickFetch ==
    /\ hist # <<>>
    /\ Len(hist) < MaxFetches
    /\ elapsed = 0
    /\ \E dt \in {FETCH_TTL - 1, FETCH_TTL} : Tick(dt)

NextFetch == CallFetch \/ TickFetch
SpecFetch == InitFetch /\ [][NextFetch]_vars

(***************************************************************************)
(* Claims about the fetch cache                                            *)
(***************************************************************************)
SameParams(i, j) ==
    hist[i].query = hist[j].query /\ hist[i].num_results = hist[j].num_results

\* call j finds no call with its parameters in the FETCH_TTL seconds before it
Uncached(j) == \A i \in 1..(j - 1) : SameParams(i, j) => Between(i, j) >= FETCH_TTL

\* the search-API calls one run of the function body makes
BodyCalls(n) ==
    /\ \A i, j \in 1..Len(hist) :
          (i < j /\ SameParams(i, j) /\ Uncached(i) /\ Between(i, j) < FETCH_TTL)
          => (hist[i].issued + hist[j].issued = n /\ hist[j].res = hist[i].res)
    /\ \A j \in 1..Len(hist) : Uncached(j) => hist[j].issued = n

\* C4 as stated: two calls with the same parameters less than FETCH_TTL
\* seconds apart make exactly one search-API call and the second returns
\* what the first returned; a call with parameters not used in the last
\* FETCH_TTL seconds makes a search-API call.
C4_OneCallWithinTtl == BodyCalls(1)

\* C4 amended: ... exactly one search-API call when the SerpAPI key is
\* configured and none when it is empty.
C4_OneCallWithinTtlIfKey == BodyCalls(IF conf.serpapi_key = "" THEN 0 ELSE 1)

\* a first call, a call with the same parameters one second before the ttl
\* ends (served from the cache), and a call after it has ended (sent again)
C4_Witness ==
    /\ Len(hist) = 3 /\ conf.serpapi_key # ""
    /\ SameParams(1, 2) /\ SameParams(2, 3)
    /\ hist[1].issued = 1 /\ hist[1].res # EmptyObj
    /\ hist[2].gap = FETCH_TTL - 1 /\ hist[2].issued = 0 /\ hist[2].res = hist[1].res
    /\ hist[3].gap = FETCH_TTL - 1 /\ hist[3].issued = 1

\* C5: a call that failed (the search API raised, or no key is configured)
\* leaves nothing in the cache, so that the next call with its parameters
\* runs the function again.
Failed(i) == ~hist[i].hit /\ (conf.serpapi_key = "" \/ hist[i].outcome.kind = "error")
C5_FailuresNotCached ==
    \A i, j \in 1..Len(hist) :
        (j = i + 1 /\ SameParams(i, j) /\ Failed(i)) => ~hist[j].hit

(***************************************************************************)
(* SpecRow: one analyze_row call on a fresh cache, for every record of the *)
(* sample responses and every answer of the completion service.            *)
(***************************************************************************)
RowInputs ==
    UNION {{[fn |-> "analyze_row", row |-> row, api_key |-> "sk-1", original_json |-> raw, outcome |-> o] :
               row \in RowsOf(raw), o \in Outcomes} : raw \in SearchResponses}

InitRow == inp \in RowInputs /\ out = Pending /\ InitRest

DoAnalyzeRow ==
    /\ inp.fn = "analyze_row"
    /\ out = Pending
    /\ out' = analyze_row(analyze_cache, inp.row, inp.api_key, inp.original_json, inp.outcome).res
    /\ UNCHANGED inp
    /\ RestUnchanged

NextRow == DoAnalyzeRow
SpecRow == InitRow /\ [][NextRow]_vars

\* C3: analyze_row returns for every record and every answer of the
\* completion service, and every failed request gives a result with 'error'.
C3_AnalyzeRowNeverRaises ==
    (inp.fn = "analyze_row" /\ out # Pending) =>
        /\ out.ok
        /\ inp.outcome \in FailureOutcomes => (out.val.t = "obj" /\ "error" \in DOMAIN out.val.v)

(***************************************************************************)
(* main: one run of the script. A run is started by one event: a click on  *)
(* Search, a click on Analyze Results (rendered once parsed_data is in the *)
(* session), the login form, or any other widget (no button is True).      *)
(***************************************************************************)
IsAbsent(x) == DOMAIN x = {"t"}

\* results.get('search_information', {}).get('total_results', 'N/A')
SearchInfo(results) ==
    GetAttr(Get(results, "search_information", EmptyObj), "total_results", Str("N/A"))

\* what a run leaves behind: [session, fetch_cache, analyze_cache], the calls
\* it made, the exception that ended it ("" when it ran to its end) and the
\* downloads it offered
RunResult(s, fc, ac, si, ci, exc, csv, md) ==
    [session |-> s, fetch_cache |-> fc, analyze_cache |-> ac, search_issued |-> si,
     completion_issued |-> ci, exc |-> exc, csv |-> csv, md |-> md]

\* display_results and the Markdown report at the end of a run whose session
\* is s2: both downloads need a non-empty analyzed_results
ReportDownload(s2, fc, ac, si, ci, query) ==
    IF IsAbsent(s2.analyzed_results) \/ s2.analyzed_results.v = <<>>
    THEN RunResult(s2, fc, ac, si, ci, "", FALSE, FALSE)
    ELSE Only({RunResult(s2, fc, ac, si, ci, IF rep.ok THEN "" ELSE rep.exc, TRUE, rep.ok)
               : rep \in {generate_report(query, s2.analyzed_results)}})

\* the Analyze Results button: process_results stores the list it built
AnalyzeButton(s1, f, ac, c, click, query, parsed_data, outcome) ==
    IF click # "analyze" THEN ReportDownload(s1, f.cache, ac, f.issued, 0, query)
    ELSE Only({IF ~pr.res.ok
               THEN RunResult(s1, f.cache, pr.cache, f.issued, pr.issued, pr.res.exc, FALSE, FALSE)
               ELSE ReportDownload(IF IsAbsent(pr.res.val) THEN s1
                                   ELSE [s1 EXCEPT !.analyzed_results = pr.res.val],
                                   f.cache, pr.cache, f.issued, pr.issued, query)
               : pr \in {process_results(ac, c, parsed_data, f.res,
                                         [i \in 1..Len(AllRows(parsed_data)) |-> outcome])}})

\* the search information lines, then the tables and the rest of the page
ShowResults(s1, f, ac, c, click, query, parsed_data, outcome) ==
    IF ~SearchInfo(f.res).ok
    THEN RunResult(s1, f.cache, ac, f.issued, 0, SearchInfo(f.res).exc, FALSE, FALSE)
    ELSE AnalyzeButton(s1, f, ac, c, click, query, parsed_data, outcome)

\* the logged-in branch of main; click is "search", "analyze" or "none"
Main(s, fc, ac, c, click, query, num_results, search_outcome, outcome) ==
    IF ~(click = "search" \/ ~IsAbsent(s.parsed_data))
    THEN RunResult(s, fc, ac, 0, 0, "", FALSE, FALSE)
    ELSE IF click = "search"
    THEN Only({Only({IF ~p.ok THEN RunResult(s, f.cache, ac, f.issued, 0, p.exc, FALSE, FALSE)
                     ELSE ShowResults([s EXCEPT !.parsed_data = p.val, !.raw_results = f.res,
                                                !.analyzed_results = Absent],
                                      f, ac, c, click, query, p.val, outcome)
                     : p \in {parse_results(f.res, num_results)}})
               : f \in {fetch_google_search_results(fc, c, query, num_results, search_outcome)}})
    ELSE ShowResults(s, [res |-> s.raw_results, issued |-> 0, hit |-> FALSE, cache |-> fc],
                     ac, c, click, query, s.parsed_data, outcome)

SameSession(a, b) ==
    /\ a.logged_in = b.logged_in
    /\ IsAbsent(a.parsed_data) = IsAbsent(b.parsed_data)
    /\ ~IsAbsent(a.parsed_data) => a.parsed_data = b.parsed_data
    /\ a.raw_results = b.raw_results
    /\ a.analyzed_results = b.analyzed_results

\* the run of a logged-in user, and what is remembered of it
Run(click, query, num_results, search_outcome, outcome) ==
    \E r \in {Main(session, fetch_cache, analyze_cache, conf, click, query, num_results,
                   search_outcome, outcome)} :
        /\ session' = r.session
        /\ fetch_cache' = r.fetch_cache
        /\ analyze_cache' = r.analyze_cache
        /\ hist' = <<[op |-> "main", click |-> click,
                      search_issued |-> r.search_issued,
                      completion_issued |-> r.completion_issued,
                      exc |-> r.exc, csv |-> r.csv, md |-> r.md,
                      kept |-> SameSession(r.session, session),
                      had_results |-> ~IsAbsent(session.analyzed_results),
                      cached |-> /\ ~IsAbsent(session.raw_results)
                                 /\ Live(analyze_cache,
                                         AnalyzeKey(Null, load_api_key(conf), session.raw_results),
                                         ANALYZE_TTL)]>>
        /\ UNCHANGED <<inp, out, conf, elapsed>>

MainDelays == {ANALYZE_TTL \div 2}

InitMain ==
    /\ inp = Idle
    /\ out = Pending
    /\ conf \in Confs
    /\ fetch_cache = EmptyCache
    /\ analyze_cache = EmptyCache
    /\ session = NoSession
    /\ elapsed = 0
    /\ hist = <<>>

\* login(): the form sets logged_in when the credentials match
RunLogin ==
    /\ ~session.logged_in
    /\ \E match \in BOOLEAN :
         /\ session' = [session EXCEPT !.logged_in = match]
         /\ hist' = <<[op |-> "login", click |-> "login", search_issued |-> 0,
                       completion_issued |-> 0, exc |-> "", csv |-> FALSE, md |-> FALSE,
                       kept |-> ~match, had_results |-> FALSE, cached |-> FALSE]>>
    /\ UNCHANGED <<inp, out, conf, fetch_cache, analyze_cache, elapsed>>

RunSearch ==
    /\ session.logged_in
    /\ \E so \in FetchOutcomes :
         Run("search", "elisa kits", MaxLimit, so, Body(Answer(Null)))

RunAnalyze ==
    /\ session.logged_in
    /\ ~IsAbsent(session.parsed_data)
    /\ \E o \in CacheOutcomes : Run("analyze", "elisa kits", MaxLimit, [kind |-> "error", raw |-> Null], o)

RunIdle ==
    /\ session.logged_in
    /\ Run("none", "elisa kits", MaxLimit, [kind |-> "error", raw |-> Null], Body(Answer(Null)))

TickMain ==
    /\ \E dt \in MainDelays : AgeCaches(dt)
    /\ UNCHANGED <<inp, out, conf, session, elapsed, hist>>

Next == RunLogin \/ RunSearch \/ RunAnalyze \/ RunIdle \/ TickMain
Init == InitMain
Spec == Init /\ [][Next]_vars

(***************************************************************************)
(* Claims about runs of main; hist holds the last run                      *)
(***************************************************************************)
LastRun == hist[1]
Ran(click) == hist # <<>> /\ LastRun.op = "main" /\ LastRun.click = click

\* C6: after a run in which Search was clicked and that ran to its end, no
\* analysis made before it is held (none in analyzed_results, no live entry
\* in the analyze_row cache) and no CSV or Markdown download is offered; and
\* the first Analyze click for the new result set finds no entry to serve its
\* records from.
C6_NewFetchDiscardsAnalyses ==
    /\ (Ran("search") /\ LastRun.exc = "") =>
          /\ IsAbsent(session.analyzed_results)
          /\ ~LastRun.csv /\ ~LastRun.md
          /\ \A k \in DOMAIN analyze_cache : analyze_cache[k].age >= ANALYZE_TTL
    /\ (Ran("analyze") /\ ~LastRun.had_results) => ~LastRun.cached

\* a run with no button clicked: no call, session untouched
IdleRunIsQuiet ==
    Ran("none") =>
        /\ LastRun.search_issued = 0
        /\ LastRun.completion_issued = 0
        /\ LastRun.kept

====
